---- MODULE Spec2Model ----
(***************************************************************************)
(* State-machine model of the Gmail schedule-send content script           *)
(* (src/content.js): the menu watcher, the two option injectors, the       *)
(* refresh control, the cancellation capture, the scheduling driver and    *)
(* the randomized-morning calculator.                                      *)
(*                                                                         *)
(* Instants are whole seconds since 1970-01-01T00:00 local time (the       *)
(* millisecond part of a JavaScript time value is dropped); the calendar   *)
(* getters and setters follow ECMAScript's Day/MakeDay/MakeTime algorithms. *)
(***************************************************************************)
EXTENDS Integers, Sequences, FiniteSets, TLC

VARIABLES
    now,        \* current instant of the page's clock (new Date())
    store,      \* chrome.storage.local value under 'scheduled time'
    storeQueue, \* Store operations issued and not yet completed, oldest first
    live,       \* the menu instance matched by '.ZkmAeb[role="menu"]' (0: none)
    menus,      \* every menu instance created so far: flags and children
    timer,      \* TRUE while the debounce timer injectionTimeout is pending
    mutPending, \* TRUE while pickerObserver has an undelivered notification
    captures,   \* cancel clicks handled so far
    lastAct,    \* the handler that ran last and the branch it took (log line)
    calcOut,    \* value returned by calculateTomorrowMorningRandom (SpecCalc)
    runs,       \* calls of fillDatePickerAndSchedule: one record per call
    dateInput,  \* the host picker's Date input: element id, presence, value
    timeInput,  \* the host picker's Time input: element id, presence, value
    scheduleButton, \* TRUE while a "Schedule send" button is rendered
    dbNow,          \* time since init(), for the debounce timer in detail
    injectionTimeout,   \* the variable injectionTimeout: a timer id, 0 for null
    pendingTimers,  \* armed debounce timers: records of id and due time
    triggerTimes,   \* history: the times of the calls of injectOptions
    passTimes,      \* history: the times the timer callback ran
    buttons,        \* "Cancel send" button instances: dataset flag, listeners
    liveButton      \* the instance findCancelSendButton returns, 0 for null

injectorVars == <<now, store, storeQueue, live, menus, timer, mutPending, captures,
                  lastAct, calcOut>>
driverVars == <<runs, dateInput, timeInput, scheduleButton>>
debounceVars == <<dbNow, injectionTimeout, pendingTimers, triggerTimes, passTimes>>
setupVars == <<buttons, liveButton>>
vars == <<now, store, storeQueue, live, menus, timer, mutPending, captures, lastAct,
          calcOut, runs, dateInput, timeInput, scheduleButton,
          dbNow, injectionTimeout, pendingTimers, triggerTimes, passTimes,
          buttons, liveButton>>

----------------------------------------------------------------------------
(* ECMAScript Date arithmetic (whole seconds, local time, no DST).         *)

IsLeapYear(y) == (y % 4 = 0 /\ y % 100 # 0) \/ y % 400 = 0

DaysInYear(y) == IF IsLeapYear(y) THEN 366 ELSE 365

\* ECMAScript DayFromYear(y): day number of 1 January of year y.
DayFromYear(y) ==
    365 * (y - 1970) + ((y - 1969) \div 4) - ((y - 1901) \div 100)
        + ((y - 1601) \div 400)

\* Month is 0-based, as Date.prototype.getMonth returns it.
DaysInMonth(y, m) ==
    IF m = 1 THEN (IF IsLeapYear(y) THEN 29 ELSE 28)
    ELSE IF m \in {3, 5, 8, 10} THEN 30 ELSE 31

\* Days of year y before month m (m = 12: the length of the year).
DaysBeforeMonth(y, m) ==
    <<0, 31, 59, 90, 120, 151, 181, 212, 243, 273, 304, 334, 365>>[m + 1]
        + (IF m > 1 /\ IsLeapYear(y) THEN 1 ELSE 0)

\* ECMAScript MakeDay(year, month, date): date may exceed the month's length.
MakeDay(y, m, dt) == DayFromYear(y) + DaysBeforeMonth(y, m) + dt - 1

\* ECMAScript MakeTime / MakeDate.
MakeTime(h, mi, s) == (h * 60 + mi) * 60 + s
MakeDate(day, time) == day * 86400 + time

Day(t) == t \div 86400
TimeWithinDay(t) == t % 86400

YearFromTime(t) ==
    CHOOSE y \in (1970 + Day(t) \div 366)..(1970 + Day(t) \div 365) :
        DayFromYear(y) <= Day(t) /\ Day(t) < DayFromYear(y + 1)

MonthFromTime(t) ==
    LET y == YearFromTime(t)
        d == Day(t) - DayFromYear(y)
    IN  CHOOSE m \in 0..11 :
            DaysBeforeMonth(y, m) <= d /\ d < DaysBeforeMonth(y, m + 1)

DateFromTime(t) ==
    LET y == YearFromTime(t)
    IN  Day(t) - DayFromYear(y) - DaysBeforeMonth(y, MonthFromTime(t)) + 1

getFullYear(t) == YearFromTime(t)
getMonth(t) == MonthFromTime(t)
getDate(t) == DateFromTime(t)
getHours(t) == TimeWithinDay(t) \div 3600
getMinutes(t) == (TimeWithinDay(t) \div 60) % 60
getSeconds(t) == TimeWithinDay(t) % 60

\* Date.prototype.setDate(dt): same year, month and time of day, day dt.
setDate(t, dt) ==
    MakeDate(MakeDay(YearFromTime(t), MonthFromTime(t), dt), TimeWithinDay(t))

\* Date.prototype.setHours(h, mi, s, ms): same day, new time of day.
setHours(t, h, mi, s) == MakeDate(Day(t), MakeTime(h, mi, s))

\* Date.prototype.setMinutes(mi): same day, hour and seconds; mi = 60 carries.
setMinutes(t, mi) ==
    MakeDate(Day(t), MakeTime(getHours(t), mi, getSeconds(t)))

----------------------------------------------------------------------------
(* Time Calculator.                                                        *)

MorningHour == 8
RandomRange == 60

\* Math.random() is k / RandomSteps for some k in 0..RandomSteps-1; the code
\* takes Math.floor(Math.random() * 60).
RandomSteps == 60
RandomDraws == 0..(RandomSteps - 1)
RandomMinutes(k) == (k * RandomRange) \div RandomSteps

\* The first half of the test of line 128 alone.
UseSameDayAlways(hours) == hours >= 0

UseSameDayLate(hours) == hours >= 0 /\ hours <= MorningHour

UseSameDay(hours) == hours >= 0 /\ hours < MorningHour

calculateTomorrowMorningRandom(t, k) ==
    LET targetDate ==
            IF UseSameDay(getHours(t))
            THEN setHours(t, MorningHour, 0, 0)
            ELSE setHours(setDate(t, getDate(t) + 1), MorningHour, 0, 0)
    IN  setMinutes(targetDate, RandomMinutes(k))

MonthShort(m) ==
    <<"Jan", "Feb", "Mar", "Apr", "May", "Jun",
      "Jul", "Aug", "Sep", "Oct", "Nov", "Dec">>[m + 1]

\* String(n).padStart(2, '0'): the two decimal digits of n, tens first.
padStart2(n) == <<n \div 10, n % 10>>

NoDisplay == [month |-> "", day |-> 0, hours12 |-> 0, minutes |-> <<0, 0>>, ampm |-> ""]

\* `${month} ${day}, ${hours12}:${minutes} ${ampm}`
formatTimeForDisplay(t) ==
    [month   |-> MonthShort(getMonth(t)),
     day     |-> getDate(t),
     hours12 |-> IF getHours(t) % 12 = 0 THEN 12 ELSE getHours(t) % 12,
     minutes |-> padStart2(getMinutes(t)),
     ampm    |-> IF getHours(t) >= 12 THEN "PM" ELSE "AM"]

----------------------------------------------------------------------------
(* Bounds of the model and the page clock.                                 *)

MaxTicks == 1       \* clock advances at most this many times
MaxMenus == 2       \* menu instances the host creates
MaxStoreOps == 2    \* Store operations in flight at once
MaxCaptures == 1    \* cancel clicks the user makes
CalcYears == 2      \* years of calendar inputs in SpecCalc

\* The page clock starts on 31 December 2023 at 07:30:15 and advances in
\* steps of one hour, so both branches of the calculator and a year end occur.
ClockStart == MakeDate(MakeDay(2023, 11, 31), MakeTime(7, 30, 15))
Clock(i) == ClockStart + i * 3600
ClockEnd == Clock(MaxTicks)
ClockTimes == {Clock(i) : i \in 0..MaxTicks}

\* calculateTomorrowMorningRandom() and formatTimeForDisplay() tabulated over
\* the page clock's instants, for the handlers that call them.
tomorrowMorningAt ==
    [t \in ClockTimes |->
        [k \in RandomDraws |-> calculateTomorrowMorningRandom(t, k)]]
displayTimeOf ==
    [t \in {tomorrowMorningAt[c][k] : c \in ClockTimes, k \in RandomDraws} |->
        formatTimeForDisplay(t)]

----------------------------------------------------------------------------
(* Persistent Store values: the text of the title attribute of              *)
(* 'span.g3[title]' as saved by saveScheduledTime.                          *)

NoValue == [tag |-> "none", t |-> 0]          \* result['scheduled time'] undefined
EmptyString == [tag |-> "empty", t |-> 0]     \* title=""
InvalidString == [tag |-> "invalid", t |-> 0] \* text new Date() cannot parse
DateString(t) == [tag |-> "date", t |-> t]    \* text new Date() parses to t

\* Titles the host may show: one of each kind, the dates at and after the
\* clock's start so that a saved instant is reached and passed.
TitleChoices == {EmptyString, InvalidString, DateString(Clock(0)), DateString(Clock(1))}

\* new Date(savedTimeStr): isNaN(getTime()) for text that does not parse.
isNaN(str) == str.tag # "date"
DateParse(str) == str.t

\* !savedTimeStr : undefined and the empty string are falsy.
Falsy(str) == str.tag \in {"none", "empty"}

----------------------------------------------------------------------------
(* Host DOM: a menu instance is its two dataset flags and its children.     *)
(* Attributes no guard reads (tabindex, autofocus, data-spied) are left out. *)

TitleRandom == "Tomorrow morning random"
TitleCancelled == "Last cancelled time"
ClassRandom == "tomorrow-morning-random-option"
ClassCancelled == "last-cancelled-time-option"

\* dataset.randomTime: <<>> while the attribute is absent, else <<value>>.
NoTime == <<>>

\* A host preset item ('.Az[role="menuitem"]') with its .Aj and .Ay children.
HostItem ==
    [cls |-> {"Az"}, title |-> "host preset", display |-> NoDisplay,
     saved |-> NoValue, randomTime |-> NoTime, refresh |-> FALSE]

\* The host's "Pick date & time" item ('.AM[role="menuitem"]').
PickItem ==
    [cls |-> {"AM"}, title |-> "Pick date & time", display |-> NoDisplay,
     saved |-> NoValue, randomTime |-> NoTime, refresh |-> FALSE]

HostChildren == <<HostItem, PickItem>>

FreshMenu(children) ==
    [lastCancelledInjected |-> FALSE, tomorrowRandomInjected |-> FALSE,
     children |-> children]

\* element.querySelector('.' + c) over the children, in document order.
Matches(children, c) == {i \in 1..Len(children) : c \in children[i].cls}
HasClass(children, c) == Matches(children, c) # {}
FirstIndex(children, c) ==
    CHOOSE i \in Matches(children, c) : \A j \in Matches(children, c) : i <= j
querySelector(children, c) == children[FirstIndex(children, c)]

InsertAt(children, i, item) ==
    SubSeq(children, 1, i - 1) \o <<item>> \o SubSeq(children, i, Len(children))

IsSynthetic(item) == item.title \in {TitleRandom, TitleCancelled}
CountTitle(children, title) ==
    Cardinality({i \in 1..Len(children) : children[i].title = title})

----------------------------------------------------------------------------
(* Option Injector: "Tomorrow morning random".                             *)

LiveMenu == menus[live]

\* The guard of lines 445-447 with the flag consulted on every instance.
RandomFlagOfAnyMenu(m) == \E k \in 1..Len(menus) : menus[k].tomorrowRandomInjected

\* datePickerMenu.dataset.tomorrowRandomInjected === 'true'
RandomFlagSet(m) == menus[m].tomorrowRandomInjected

\* datePickerMenu.querySelector('.tomorrow-morning-random-option')
RandomOptionFound(children) == HasClass(children, ClassRandom)

\* The function without its two already-injected guards (lines 445-453).
RandomBranchUnguarded ==
    IF live = 0 THEN "noMenu"
    ELSE IF ~HasClass(LiveMenu.children, "Az") THEN "noTemplate"
    ELSE "injected"

\* Which return of injectTomorrowMorningRandomOption the call takes.
RandomBranch ==
    IF live = 0 THEN "noMenu"
    ELSE IF RandomFlagSet(live) THEN "flagSet"
    ELSE IF RandomOptionFound(LiveMenu.children) THEN "exists"
    ELSE IF ~HasClass(LiveMenu.children, "Az") THEN "noTemplate"
    ELSE "injected"

\* The clone of firstMenuItem relabelled as the randomized option (460-531).
RandomOption(firstMenuItem, tomorrowMorning) ==
    [cls        |-> firstMenuItem.cls \cup {ClassRandom},
     title      |-> TitleRandom,
     display    |-> displayTimeOf[tomorrowMorning],
     saved      |-> firstMenuItem.saved,
     randomTime |-> <<tomorrowMorning>>,
     refresh    |-> TRUE]

\* The menu record after injectTomorrowMorningRandomOption(), k the random draw.
injectTomorrowMorningRandomOption(menu, branch, k) ==
    IF branch = "exists"
    THEN [menu EXCEPT !.tomorrowRandomInjected = TRUE]
    ELSE IF branch = "injected"
    THEN [menu EXCEPT
            !.children = <<RandomOption(querySelector(menu.children, "Az"),
                                        tomorrowMorningAt[now][k])>>
                         \o menu.children,
            !.tomorrowRandomInjected = TRUE]
    ELSE menu

----------------------------------------------------------------------------
(* Option Injector: "Last cancelled time".                                 *)

\* The guard of lines 263-265 never finding the flag.
CancelledFlagIgnored(m) == FALSE

\* datePickerMenu.dataset.lastCancelledInjected === 'true'
CancelledFlagSet(m) == menus[m].lastCancelledInjected

\* Which return of the synchronous part of injectLastCancelledTimeOption the
\* call takes, on the menu as injectTomorrowMorningRandomOption left it.
CancelledBranch(menu) ==
    IF live = 0 THEN "noMenu"
    ELSE IF CancelledFlagSet(live) \/ HasClass(menu.children, ClassCancelled)
    THEN "already"
    ELSE IF ~HasClass(menu.children, "Az") THEN "noTemplate"
    ELSE "readIssued"

\* The menu record after the synchronous part (line 269 sets the claim).
claimMenu(menu, branch) ==
    IF branch \in {"noTemplate", "readIssued"}
    THEN [menu EXCEPT !.lastCancelledInjected = TRUE]
    ELSE menu

\* chrome.storage.local.get(['scheduled time'], callback): the callback closes
\* over datePickerMenu and firstMenuItem.
GetOp(m, firstMenuItem) ==
    [op |-> "get", menu |-> m, item |-> firstMenuItem, value |-> NoValue]

\* chrome.storage.local.set({'scheduled time': scheduledTime}, callback)
SetOp(scheduledTime) ==
    [op |-> "set", menu |-> 0, item |-> HostItem, value |-> scheduledTime]

\* The comparison of line 316 with the boundary instant let through.
IsStaleStrict(t) == now > t

\* now >= savedTimeDate
IsStale(t) == now >= t

\* The callback without the identity comparison of line 280.
ReplyBranchAnyMenu(op) ==
    IF live = 0 THEN "menuChanged"
    ELSE IF HasClass(LiveMenu.children, ClassCancelled) THEN "alreadyInjected"
    ELSE IF Falsy(store) THEN "noSaved"
    ELSE IF isNaN(store) THEN "invalid"
    ELSE IF IsStale(DateParse(store)) THEN "stale"
    ELSE "injected"

\* Which return of the Store callback (lines 277-325) the call takes.
ReplyBranch(op) ==
    IF live = 0 \/ live # op.menu THEN "menuChanged"
    ELSE IF HasClass(LiveMenu.children, ClassCancelled) THEN "alreadyInjected"
    ELSE IF Falsy(store) THEN "noSaved"
    ELSE IF isNaN(store) THEN "invalid"
    ELSE IF IsStale(DateParse(store)) THEN "stale"
    ELSE "injected"

\* The clone of firstMenuItem relabelled as the cancelled-time option (337-363):
\* timeDiv.textContent = savedTime drops the cloned refresh control.
CancelledOption(firstMenuItem, savedTime) ==
    [cls        |-> firstMenuItem.cls \cup {ClassCancelled},
     title      |-> TitleCancelled,
     display    |-> NoDisplay,
     saved      |-> savedTime,
     randomTime |-> firstMenuItem.randomTime,
     refresh    |-> FALSE]

\* The insertion always taking the branch of line 424.
injectMenuItemWithTimeAtFront(menu, firstMenuItem, savedTime) ==
    [menu EXCEPT
        !.children = <<CancelledOption(firstMenuItem, savedTime)>> \o menu.children,
        !.lastCancelledInjected = TRUE]

\* The menu record after injectMenuItemWithTime (lines 419-428).
injectMenuItemWithTime(menu, firstMenuItem, savedTime) ==
    LET newMenuItem == CancelledOption(firstMenuItem, savedTime)
    IN  [menu EXCEPT
            !.children =
                IF HasClass(menu.children, ClassRandom)
                THEN InsertAt(menu.children,
                              FirstIndex(menu.children, ClassRandom) + 1, newMenuItem)
                ELSE <<newMenuItem>> \o menu.children,
            !.lastCancelledInjected = TRUE]

\* Whether the Store callback clears the claim flag of the menu it closed over.
ReleasesClaim(branch) == branch \in {"menuChanged", "noSaved", "invalid", "stale"}

----------------------------------------------------------------------------
(* Menu Watcher (watchForDateTimePicker).                                  *)

Act(name, a, b) == <<name, a, b>>

\* injectOptions(): clearTimeout(injectionTimeout), then arm the 100 ms timer.
injectOptions == timer' = TRUE

\* The observer calling injectOptions whatever the menu holds.
OptionMissingAlways(children) == TRUE

\* Every return of an injector counted as a change of the document.
InsertsNodeAlways(branch) == TRUE

\* An injector changes the observed child lists only on the branch that
\* inserts the new item (lines 425 and 548).
InsertsNode(branch) == branch = "injected"

\* pickerObserver's condition: !hasLastCancelled || !hasTomorrowRandom
OptionMissing(children) ==
    ~HasClass(children, ClassCancelled) \/ ~HasClass(children, ClassRandom)

\* The MutationObserver callback of lines 580-591.
MutationDeliver ==
    /\ mutPending
    /\ mutPending' = FALSE
    /\ IF live # 0 /\ OptionMissing(LiveMenu.children)
       THEN injectOptions /\ lastAct' = Act("mutation", "injectOptions", "")
       ELSE timer' = timer /\ lastAct' = Act("mutation", "nothing", "")
    /\ UNCHANGED <<now, store, storeQueue, live, menus, captures, calcOut>>
    /\ UNCHANGED driverVars
    /\ UNCHANGED debounceVars
    /\ UNCHANGED setupVars

\* The debounce timer's callback (lines 570-573): both injectors in order.
InjectionPass ==
    /\ timer
    /\ Len(storeQueue) < MaxStoreOps
    /\ \E k \in {0, RandomSteps - 1} :
        LET rb == RandomBranch
            m1 == IF live = 0 THEN FreshMenu(<<>>)
                  ELSE injectTomorrowMorningRandomOption(LiveMenu, rb, k)
            cb == CancelledBranch(m1)
            m2 == claimMenu(m1, cb)
        IN  /\ timer' = FALSE
            /\ menus' = IF live = 0 THEN menus ELSE [menus EXCEPT ![live] = m2]
            /\ storeQueue' =
                 IF cb = "readIssued"
                 THEN Append(storeQueue, GetOp(live, querySelector(m1.children, "Az")))
                 ELSE storeQueue
            /\ mutPending' = (mutPending \/ InsertsNode(rb))
            /\ lastAct' = Act("pass", rb, cb)
    /\ UNCHANGED <<now, store, live, captures, calcOut>>
    /\ UNCHANGED driverVars
    /\ UNCHANGED debounceVars
    /\ UNCHANGED setupVars

\* Completion of the oldest Store read: the callback of lines 277-325.
StoreReadDone ==
    /\ storeQueue # <<>>
    /\ Head(storeQueue).op = "get"
    /\ LET op == Head(storeQueue)
           rb == ReplyBranch(op)
       IN  /\ storeQueue' = Tail(storeQueue)
           /\ menus' =
                IF rb = "injected"
                THEN [menus EXCEPT
                        ![op.menu] =
                            injectMenuItemWithTime(menus[op.menu], op.item, store)]
                ELSE IF ReleasesClaim(rb)
                THEN [menus EXCEPT ![op.menu].lastCancelledInjected = FALSE]
                ELSE menus
           /\ mutPending' = (mutPending \/ InsertsNode(rb))
           /\ lastAct' = Act("reply", rb, "")
    /\ UNCHANGED <<now, store, live, timer, captures, calcOut>>
    /\ UNCHANGED driverVars
    /\ UNCHANGED debounceVars
    /\ UNCHANGED setupVars

\* Positions of the writes in flight.
SetOps(queue) == {i \in 1..Len(queue) : queue[i].op = "set"}
NewestSet(queue) == CHOOSE i \in SetOps(queue) : \A j \in SetOps(queue) : j <= i
RemoveAt(queue, i) == SubSeq(queue, 1, i - 1) \o SubSeq(queue, i + 1, Len(queue))

\* A Store that completes the newest write in flight first.
StoreWriteDoneNewestFirst ==
    /\ SetOps(storeQueue) # {}
    /\ store' = storeQueue[NewestSet(storeQueue)].value
    /\ storeQueue' = RemoveAt(storeQueue, NewestSet(storeQueue))
    /\ lastAct' = Act("saved", "", "")
    /\ UNCHANGED <<now, live, menus, timer, mutPending, captures, calcOut>>
    /\ UNCHANGED driverVars
    /\ UNCHANGED debounceVars
    /\ UNCHANGED setupVars

\* Completion of the oldest Store write issued by saveScheduledTime.
StoreWriteDone ==
    /\ storeQueue # <<>>
    /\ Head(storeQueue).op = "set"
    /\ store' = Head(storeQueue).value
    /\ storeQueue' = Tail(storeQueue)
    /\ lastAct' = Act("saved", "", "")
    /\ UNCHANGED <<now, live, menus, timer, mutPending, captures, calcOut>>
    /\ UNCHANGED driverVars
    /\ UNCHANGED debounceVars
    /\ UNCHANGED setupVars

----------------------------------------------------------------------------
(* Scheduling Driver: fillDatePickerAndSchedule and its chain of timers.   *)

MaxAttempts == 15       \* tryToSetDate's default maxAttempts
PollDelayUnit == 200    \* poll number n is armed with 200 * n
TimeWriteDelay == 200   \* timer between the date write and the time write
ConfirmDelay == 300     \* timer between the time write and the button lookup

MaxRuns == 1            \* calls of fillDatePickerAndSchedule
MaxRenders == 1         \* times the host renders each input element

\* Instants an option can hand to the driver.
DriverTargets ==
    {tomorrowMorningAt[c][k] : c \in ClockTimes, k \in RandomDraws} \cup ClockTimes

\* `${month}/${day}/${year}` and `${hours12}:${minutes} ${ampm}`
dateStrOf ==
    [t \in DriverTargets |->
        [month |-> padStart2(getMonth(t) + 1),
         day   |-> padStart2(getDate(t)),
         year  |-> getFullYear(t)]]
timeStrOf ==
    [t \in DriverTargets |->
        [hours12 |-> IF getHours(t) % 12 = 0 THEN 12 ELSE getHours(t) % 12,
         minutes |-> padStart2(getMinutes(t)),
         ampm    |-> IF getHours(t) >= 12 THEN "PM" ELSE "AM"]]

\* A delay that does not grow with the attempt.
PollDelayFlat(attempt) == PollDelayUnit

\* setTimeout(..., 200 * attempt)
PollDelay(attempt) == PollDelayUnit * attempt

\* The lookup of line 163 taken to succeed.
PickItemAssumed == TRUE

\* document.querySelector('.ZkmAeb[role="menu"] .AM[role="menuitem"]')
PickItemFound == live # 0 /\ HasClass(LiveMenu.children, "AM")

\* The state of one call. phase is the timer the call has armed ("poll",
\* "time", "confirm") or how it ended; attempt is the argument of the armed
\* poll, delay the argument of the armed setTimeout, polls the number of poll
\* callbacks that ran, dateEl/timeEl the elements the successful poll found,
\* clicks the number of scheduleButton.click() calls, clickedAt the time of
\* the call.
NewRun(targetDate) ==
    [target    |-> targetDate,
     clickedAt |-> now,
     phase     |-> IF PickItemFound THEN "poll" ELSE "noPick",
     pickClick |-> PickItemFound,
     attempt   |-> IF PickItemFound THEN 1 ELSE 0,
     delay     |-> IF PickItemFound THEN PollDelay(1) ELSE 0,
     polls     |-> 0,
     dateEl    |-> 0,
     timeEl    |-> 0,
     wroteDate |-> FALSE,
     wroteTime |-> FALSE,
     caught    |-> FALSE,
     confirm   |-> "none",
     clicks    |-> 0]

fillDatePickerAndSchedule(targetDate) == runs' = Append(runs, NewRun(targetDate))

\* Whether a click with the given target, the refresh button or the rest of
\* the randomized option, reaches the option's listener (the button's
\* listener calls e.stopPropagation(), line 511) and passes the listener's
\* own test of the target (lines 536-539).
ReachesOptionListener(target) == target # "refreshBtn"
PassesTargetTest(target) == target # "refreshBtn"

\* A listener that starts a run for every click.
ClickStartsRunAlways(target) == TRUE

ClickStartsRun(target) == ReachesOptionListener(target) /\ PassesTargetTest(target)

----------------------------------------------------------------------------
(* Refresh control of the randomized option (lines 509-524).               *)

\* A refresh that changes the label and leaves the stored target.
RefreshedItemLabelOnly(item, newTime) ==
    [item EXCEPT !.display = displayTimeOf[newTime]]

RefreshedItem(item, newTime) ==
    [item EXCEPT !.randomTime = <<newTime>>,
                 !.display = displayTimeOf[newTime]]

\* The handler with the outer injection flag cleared as a side effect.
RefreshedMenuResetFlag(menu, i, newTime) ==
    [menu EXCEPT !.children[i] = RefreshedItem(menu.children[i], newTime),
                 !.tomorrowRandomInjected = FALSE]

RefreshedMenu(menu, i, newTime) ==
    [menu EXCEPT !.children[i] = RefreshedItem(menu.children[i], newTime)]

\* A Store read in flight closes over the same element the handler updates.
RefreshClosure(op, old, new) ==
    IF op.op = "get" /\ op.menu = live /\ op.item = old
    THEN [op EXCEPT !.item = new] ELSE op

RefreshClick ==
    /\ live # 0
    /\ \E i \in 1..Len(LiveMenu.children), k \in {0, RandomSteps - 1} :
        LET newTime == tomorrowMorningAt[now][k]
            old == LiveMenu.children[i]
        IN  /\ old.refresh
            /\ menus' = [menus EXCEPT ![live] = RefreshedMenu(LiveMenu, i, newTime)]
            /\ storeQueue' =
                 [j \in 1..Len(storeQueue) |->
                    RefreshClosure(storeQueue[j], old, RefreshedItem(old, newTime))]
            /\ runs' = IF ClickStartsRun("refreshBtn")
                       THEN Append(runs, NewRun(newTime))
                       ELSE runs
    /\ lastAct' = Act("refresh", "", "")
    /\ UNCHANGED <<now, store, live, timer, mutPending, captures, calcOut>>
    /\ UNCHANGED <<dateInput, timeInput, scheduleButton>>
    /\ UNCHANGED debounceVars
    /\ UNCHANGED setupVars

----------------------------------------------------------------------------
(* Host, user and clock.                                                   *)

\* The host opens the picker menu: a new element, rendered with or before
\* its items; it replaces the live instance if there is one.
MenuAppear ==
    /\ Len(menus) < MaxMenus
    /\ \E children \in {<<>>, HostChildren} :
        menus' = Append(menus, FreshMenu(children))
    /\ live' = Len(menus) + 1
    /\ mutPending' = TRUE
    /\ lastAct' = Act("host", "", "")
    /\ UNCHANGED <<now, store, storeQueue, timer, captures, calcOut>>
    /\ UNCHANGED driverVars
    /\ UNCHANGED debounceVars
    /\ UNCHANGED setupVars

\* The host renders the items of a menu whose container came first.
HostRenderItems ==
    /\ live # 0
    /\ LiveMenu.children = <<>>
    /\ menus' = [menus EXCEPT ![live].children = HostChildren]
    /\ mutPending' = TRUE
    /\ lastAct' = Act("host", "", "")
    /\ UNCHANGED <<now, store, storeQueue, live, timer, captures, calcOut>>
    /\ UNCHANGED driverVars
    /\ UNCHANGED debounceVars
    /\ UNCHANGED setupVars

\* The host re-renders the live menu's children, dropping the synthetic ones.
HostWipe ==
    /\ live # 0
    /\ \E i \in 1..Len(LiveMenu.children) : IsSynthetic(LiveMenu.children[i])
    /\ menus' = [menus EXCEPT ![live].children = HostChildren]
    /\ mutPending' = TRUE
    /\ lastAct' = Act("host", "", "")
    /\ UNCHANGED <<now, store, storeQueue, live, timer, captures, calcOut>>
    /\ UNCHANGED driverVars
    /\ UNCHANGED debounceVars
    /\ UNCHANGED setupVars

\* The host removes the live menu from the document.
MenuClose ==
    /\ live # 0
    /\ live' = 0
    /\ mutPending' = TRUE
    /\ lastAct' = Act("host", "", "")
    /\ UNCHANGED <<now, store, storeQueue, menus, timer, captures, calcOut>>
    /\ UNCHANGED driverVars
    /\ UNCHANGED debounceVars
    /\ UNCHANGED setupVars

Tick ==
    /\ now < ClockEnd
    /\ now' = now + 3600
    /\ lastAct' = Act("host", "", "")
    /\ UNCHANGED <<store, storeQueue, live, menus, timer, mutPending, captures, calcOut>>
    /\ UNCHANGED driverVars
    /\ UNCHANGED debounceVars
    /\ UNCHANGED setupVars

\* The capture listener of lines 63-75 with the scheduled-time element present.
CancelClickFound ==
    /\ captures' = captures + 1
    /\ Len(storeQueue) < MaxStoreOps
    /\ \E scheduledTime \in TitleChoices :
        storeQueue' = Append(storeQueue, SetOp(scheduledTime))
    /\ lastAct' = Act("cancelClick", "found", "")
    /\ UNCHANGED <<now, store, live, menus, timer, mutPending, calcOut>>
    /\ UNCHANGED driverVars
    /\ UNCHANGED debounceVars
    /\ UNCHANGED setupVars

\* The same listener when 'span.g3[title]' matches nothing.
CancelClickNotFound ==
    /\ captures' = captures + 1
    /\ lastAct' = Act("cancelClick", "notFound", "")
    /\ UNCHANGED <<now, store, storeQueue, live, menus, timer, mutPending, calcOut>>
    /\ UNCHANGED driverVars
    /\ UNCHANGED debounceVars
    /\ UNCHANGED setupVars

\* A "Cancel send" button as the host creates it: no data attribute of the
\* extension, no listener of the extension; setups counts the set-up calls
\* that found the instance.
NewButton == [scheduledTimeListener |-> FALSE, listeners |-> 0, setups |-> 0]

\* A set-up that does not look at the data attribute.
ListenerFlagIgnored(cancelButton) == FALSE

\* cancelButton.dataset.scheduledTimeListener
ListenerFlagSet(cancelButton) == cancelButton.scheduledTimeListener

\* setupCancelButtonListener() on the instance findCancelSendButton returns:
\* nothing for null or for a marked instance, else the mark and one listener.
setupCancelButtonListener(cancelButton) ==
    IF cancelButton = 0 THEN buttons
    ELSE IF ListenerFlagSet(buttons[cancelButton])
         THEN [buttons EXCEPT ![cancelButton].setups = @ + 1]
    ELSE [buttons EXCEPT ![cancelButton] =
              [scheduledTimeListener |-> TRUE,
               listeners |-> @.listeners + 1,
               setups |-> @.setups + 1]]

\* checkAndSetupCancelButton(): the set-up when a button is found.
checkAndSetupCancelButton ==
    /\ buttons' = IF liveButton # 0 THEN setupCancelButtonListener(liveButton)
                  ELSE buttons
    /\ UNCHANGED liveButton

\* The timers other than the interval that end in checkAndSetupCancelButton:
\* the start-up timer, the debounce timer of the body observer, and the
\* timers of pushState, replaceState and popstate.
SetupSources == {"startup", "mutation", "history"}

SetupTimerFires ==
    /\ \E source \in SetupSources : lastAct' = Act("setup", source, "")
    /\ checkAndSetupCancelButton
    /\ UNCHANGED <<now, store, storeQueue, live, menus, timer, mutPending, captures, calcOut>>
    /\ UNCHANGED driverVars
    /\ UNCHANGED debounceVars

\* The setInterval callback of lines 654-656: checkAndSetupCancelButton(),
\* which touches the cancel button only.
PeriodicCheck ==
    /\ lastAct' = Act("periodic", "", "")
    /\ checkAndSetupCancelButton
    /\ UNCHANGED <<now, store, storeQueue, live, menus, timer, mutPending, captures, calcOut>>
    /\ UNCHANGED driverVars
    /\ UNCHANGED debounceVars

\* One click on the button on the page: every listener the extension attached
\* to the instance runs the handler of lines 63-75 on the same page, so each
\* queues a write of the title, or none does when no title element is found.
Writes(n, scheduledTime) == [i \in 1..n |-> SetOp(scheduledTime)]

CancelButtonClick ==
    /\ liveButton # 0
    /\ captures' = captures + 1
    /\ \/ \E scheduledTime \in TitleChoices :
            /\ storeQueue' =
                   storeQueue \o Writes(buttons[liveButton].listeners, scheduledTime)
            /\ lastAct' = Act("cancelClick", "found", "")
       \/ /\ storeQueue' = storeQueue
          /\ lastAct' = Act("cancelClick", "notFound", "")
    /\ UNCHANGED <<now, store, live, menus, timer, mutPending, calcOut>>
    /\ UNCHANGED driverVars
    /\ UNCHANGED debounceVars
    /\ UNCHANGED setupVars

\* The host renders a new "Cancel send" button.
ButtonAppear ==
    /\ buttons' = Append(buttons, NewButton)
    /\ liveButton' = Len(buttons) + 1
    /\ UNCHANGED injectorVars
    /\ UNCHANGED driverVars
    /\ UNCHANGED debounceVars

\* The host takes the button off the page.
ButtonRemove ==
    /\ liveButton # 0
    /\ liveButton' = 0
    /\ UNCHANGED buttons
    /\ UNCHANGED injectorVars
    /\ UNCHANGED driverVars
    /\ UNCHANGED debounceVars

\* The host puts an instance it rendered before back on the page.
ButtonShown ==
    /\ liveButton = 0
    /\ \E b \in 1..Len(buttons) : liveButton' = b
    /\ UNCHANGED buttons
    /\ UNCHANGED injectorVars
    /\ UNCHANGED driverVars
    /\ UNCHANGED debounceVars

----------------------------------------------------------------------------
(* Specifications.                                                         *)

NoResult == <<>>

NoText == <<>>
AbsentInput == [id |-> 0, present |-> FALSE, value |-> NoText]

\* No "Cancel send" button has been rendered.
NoButtons ==
    /\ buttons = <<>>
    /\ liveButton = 0

DebounceDelay == 100    \* setTimeout(..., 100) of injectOptions

\* The debounce timer after init(): injectOptions was called once, at time 0.
DebounceStarted ==
    /\ dbNow = 0
    /\ injectionTimeout = 1
    /\ pendingTimers = {[id |-> 1, due |-> DebounceDelay]}
    /\ triggerTimes = <<0>>
    /\ passTimes = <<>>

\* The same timer after its callback ran.
DebounceAtRest ==
    /\ dbNow = DebounceDelay
    /\ injectionTimeout = 1
    /\ pendingTimers = {}
    /\ triggerTimes = <<0>>
    /\ passTimes = <<DebounceDelay>>

\* No driver run was started and the host's manual picker is not rendered.
DriverIdle ==
    /\ runs = <<>>
    /\ dateInput = AbsentInput
    /\ timeInput = AbsentInput
    /\ scheduleButton = FALSE

\* After init(): watchForDateTimePicker has armed the debounce timer once; the
\* Store is empty until a cancellation is captured.
Init ==
    /\ now = ClockStart
    /\ store = NoValue
    /\ storeQueue = <<>>
    /\ live = 0
    /\ menus = <<>>
    /\ timer = TRUE
    /\ mutPending = FALSE
    /\ captures = 0
    /\ lastAct = Act("init", "", "")
    /\ calcOut = NoResult
    /\ DriverIdle
    /\ DebounceStarted
    /\ NoButtons

Next ==
    \/ MutationDeliver
    \/ InjectionPass
    \/ StoreReadDone
    \/ StoreWriteDone
    \/ RefreshClick
    \/ MenuAppear
    \/ HostRenderItems
    \/ HostWipe
    \/ MenuClose
    \/ Tick
    \/ (captures < MaxCaptures /\ CancelClickFound)
    \/ (captures < MaxCaptures /\ CancelClickNotFound)
    \/ PeriodicCheck

Spec == Init /\ [][Next]_vars

\* Timers, mutation notifications and Store completions are delivered by the
\* browser's event loop; host, user and clock steps are not forced.
Fairness ==
    /\ WF_vars(MutationDeliver)
    /\ WF_vars(InjectionPass)
    /\ WF_vars(StoreReadDone)
    /\ WF_vars(StoreWriteDone)

FairSpec == Spec /\ Fairness

----------------------------------------------------------------------------
(* The calculator on its own: every local time of a bounded calendar.      *)

\* The first and the last days of every month, every hour of the day, at
\* minute 59 and second 59.
CalcInputs ==
    { MakeDate(MakeDay(y, m, d), MakeTime(h, 59, 59)) :
        y \in 2023..(2023 + CalcYears - 1), m \in 0..11, d \in {1, 28, 29, 30, 31},
        h \in 0..23 }

InitCalc ==
    /\ now \in {t \in CalcInputs : getDate(t) \in {1, 28, 29, 30, 31}}
    /\ store = NoValue
    /\ storeQueue = <<>>
    /\ live = 0
    /\ menus = <<>>
    /\ timer = TRUE
    /\ mutPending = FALSE
    /\ captures = 0
    /\ lastAct = Act("init", "", "")
    /\ calcOut = NoResult
    /\ DriverIdle
    /\ DebounceStarted
    /\ NoButtons

\* One call of calculateTomorrowMorningRandom() at the current time.
CalcCall ==
    /\ calcOut = NoResult
    /\ \E k \in RandomDraws : calcOut' = <<calculateTomorrowMorningRandom(now, k)>>
    /\ UNCHANGED <<now, store, storeQueue, live, menus, timer, mutPending,
                   captures, lastAct>>
    /\ UNCHANGED driverVars
    /\ UNCHANGED debounceVars
    /\ UNCHANGED setupVars

NextCalc == CalcCall

SpecCalc == InitCalc /\ [][NextCalc]_vars

\* The calendar date after year y, month m (0-based), day d.
NextCalendarDate(y, m, d) ==
    IF d < DaysInMonth(y, m) THEN <<y, m, d + 1>>
    ELSE IF m < 11 THEN <<y, m + 1, 1>>
    ELSE <<y + 1, 0, 1>>

CalendarDate(t) == <<getFullYear(t), getMonth(t), getDate(t)>>

\* C8: the calculator returns hour 8, a minute in 0..59 and zero seconds, on
\* the same calendar day when the current hour is below 8 and on the next
\* calendar day otherwise, month and year ends included.
C8_MorningWindow ==
    calcOut # NoResult =>
        LET r == calcOut[1]
            today == CalendarDate(now)
        IN  /\ getHours(r) = 8
            /\ getMinutes(r) \in 0..59
            /\ getSeconds(r) = 0
            /\ IF getHours(now) \in 0..7
               THEN CalendarDate(r) = today
               ELSE CalendarDate(r) = NextCalendarDate(today[1], today[2], today[3])

\* A call made on 31 December at or after 08:00 returned 1 January of the
\* next year at 08:59.
C8_Witness ==
    /\ calcOut # NoResult
    /\ getHours(now) >= 8
    /\ getMonth(now) = 11 /\ getDate(now) = 31
    /\ CalendarDate(calcOut[1]) = <<getFullYear(now) + 1, 0, 1>>
    /\ getMinutes(calcOut[1]) = 59

----------------------------------------------------------------------------
(* Properties of the injection engine.                                     *)

MenuIds == 1..Len(menus)
CancelledCount(m) == CountTitle(menus[m].children, TitleCancelled)
RandomCount(m) == CountTitle(menus[m].children, TitleRandom)

\* C1: under every interleaving of mutation notifications, timer firings and
\* Store completions, a menu instance holds at most one "Last cancelled time"
\* option and at most one "Tomorrow morning random" option.
C1_AtMostOnce ==
    \A m \in MenuIds : CancelledCount(m) <= 1 /\ RandomCount(m) <= 1

\* An injection pass has just run again on a menu that holds both options.
C1_Witness ==
    /\ live # 0
    /\ CancelledCount(live) = 1 /\ RandomCount(live) = 1
    /\ lastAct = Act("pass", "flagSet", "already")

\* C2: a step that adds a "Last cancelled time" option to a menu starts in a
\* state whose Store value parses to an instant strictly after the clock; so no
\* option is added for a missing, unparseable, equal-to-now or past value.
C2_OnlyFutureInserted ==
    [][\A m \in MenuIds :
          CountTitle(menus'[m].children, TitleCancelled) > CancelledCount(m)
              => store.tag = "date" /\ store.t > now]_vars

\* A Store read has just completed with the saved instant equal to the clock,
\* and the live menu holds no cancelled-time option.
C2_Witness ==
    /\ lastAct = Act("reply", "stale", "")
    /\ store.tag = "date" /\ store.t = now
    /\ live # 0 /\ CancelledCount(live) = 0

\* C4: after the Store callback has met an unparseable value or an instant not
\* strictly in the future, the Store no longer holds that record.
C4_StaleRecordRemoved ==
    lastAct \in {Act("reply", "stale", ""), Act("reply", "invalid", "")}
        => store.tag = "none"

\* C5: a menu instance is created with both flags unset and no synthetic
\* option, and an injection pass on a live instance whose own flags are unset
\* inserts the randomized option and claims the instance for a Store read,
\* whatever flags the other instances carry.
C5_InstanceScoped ==
    [][/\ Len(menus') > Len(menus) =>
            LET new == menus'[Len(menus')]
            IN  /\ ~new.lastCancelledInjected /\ ~new.tomorrowRandomInjected
                /\ \A i \in 1..Len(new.children) : ~IsSynthetic(new.children[i])
       /\ ( /\ timer /\ ~timer' /\ live # 0
            /\ ~LiveMenu.lastCancelledInjected /\ ~LiveMenu.tomorrowRandomInjected
            /\ \A i \in 1..Len(LiveMenu.children) : ~IsSynthetic(LiveMenu.children[i])
            /\ HasClass(LiveMenu.children, "Az") )
          => /\ CountTitle(menus'[live].children, TitleRandom) = 1
             /\ menus'[live].tomorrowRandomInjected
             /\ menus'[live].lastCancelledInjected
             /\ \E j \in 1..Len(storeQueue') :
                    storeQueue'[j].op = "get" /\ storeQueue'[j].menu = live]_vars

\* The second instance has just been injected while the first, detached one
\* still carries both flags.
C5_Witness ==
    /\ live = 2
    /\ menus[1].lastCancelledInjected /\ menus[1].tomorrowRandomInjected
    /\ lastAct = Act("pass", "injected", "readIssued")
    /\ RandomCount(2) = 1

\* C7: when a Store read issued for menu M completes while M is not the live
\* menu, no menu's children change, the Store is unchanged and M's claim flag
\* is cleared.
C7_RaceLossNoEffect ==
    [][( /\ storeQueue # <<>>
         /\ Head(storeQueue).op = "get"
         /\ storeQueue' = Tail(storeQueue)
         /\ Head(storeQueue).menu # live )
       => /\ \A m \in MenuIds : menus'[m].children = menus[m].children
          /\ store' = store
          /\ ~menus'[Head(storeQueue).menu].lastCancelledInjected]_vars

\* A read issued for the first instance has just completed after a second
\* instance replaced it, while the Store held a future instant.
C7_Witness ==
    /\ lastAct = Act("reply", "menuChanged", "")
    /\ live = 2
    /\ ~menus[1].lastCancelledInjected
    /\ store.tag = "date" /\ store.t > now

\* C9: a refresh changes only the displayed time and the stored target of the
\* randomized option: flags, the children's number and order, every other
\* child, the Store and its pending operations' kinds, and the live menu stay.
C9_RefreshFrame ==
    [][lastAct' = Act("refresh", "", "") /\ vars' # vars =>
        /\ live' = live
        /\ store' = store
        /\ timer' = timer /\ mutPending' = mutPending
        /\ Len(storeQueue') = Len(storeQueue)
        /\ \A j \in 1..Len(storeQueue) :
              /\ storeQueue'[j].op = storeQueue[j].op
              /\ storeQueue'[j].menu = storeQueue[j].menu
              /\ storeQueue'[j].value = storeQueue[j].value
        /\ Len(menus') = Len(menus)
        /\ \A m \in MenuIds :
              /\ menus'[m].lastCancelledInjected = menus[m].lastCancelledInjected
              /\ menus'[m].tomorrowRandomInjected = menus[m].tomorrowRandomInjected
              /\ Len(menus'[m].children) = Len(menus[m].children)
              /\ \A i \in 1..Len(menus[m].children) :
                    LET old == menus[m].children[i]
                        new == menus'[m].children[i]
                    IN  \/ new = old
                        \/ /\ old.title = TitleRandom /\ old.refresh
                           /\ new = [old EXCEPT !.display = new.display,
                                                !.randomTime = new.randomTime]]_vars

\* A refresh has just run in a menu that also holds the cancelled-time option,
\* and the two options' stored targets now differ.
C9_Witness ==
    /\ lastAct = Act("refresh", "", "")
    /\ live # 0
    /\ CancelledCount(live) = 1 /\ RandomCount(live) = 1
    /\ \E i, j \in 1..Len(LiveMenu.children) :
          /\ LiveMenu.children[i].title = TitleRandom
          /\ LiveMenu.children[j].title = TitleCancelled
          /\ LiveMenu.children[i].randomTime # LiveMenu.children[j].randomTime

----------------------------------------------------------------------------
(* Liveness of the injection engine, under FairSpec.                       *)

\* A debounce timer or a mutation notification is outstanding.
Triggered == timer \/ mutPending

\* The host has re-rendered the children of menu m after the randomized
\* option was injected: the flag is set and the option is gone.
Wiped(m) == menus[m].tomorrowRandomInjected /\ RandomCount(m) = 0

\* Menu m is live with a template item and the Store holds a future instant.
Offerable(m) ==
    /\ live = m
    /\ HasClass(menus[m].children, "Az")
    /\ store.tag = "date" /\ store.t > now

\* C3: while the Store holds a valid future instant and menu m stays live
\* with a template item, a pending trigger leads to the "Last cancelled time"
\* option being present in m - also when the container was first observed
\* without items. (Menus whose children the host wiped are the case of C6.)
C3_EventuallyOffered ==
    \A m \in 1..MaxMenus :
        (Offerable(m) /\ Triggered)
            ~> (~Offerable(m) \/ CancelledCount(m) = 1 \/ Wiped(m))

\* C6: once the host has wiped the synthetic options of live menu m and a
\* trigger is pending, the randomized option is eventually back in m (unless
\* the menu goes away).
C6_ReinjectedAfterWipe ==
    \A m \in 1..MaxMenus :
        (live = m /\ Wiped(m) /\ HasClass(menus[m].children, "Az") /\ Triggered)
            ~> (live # m \/ RandomCount(m) = 1)

----------------------------------------------------------------------------
(* Scheduling Driver: the timer callbacks and the option clicks.           *)

\* The retry test with the bound included.
AttemptsLeftInclusive(attempt) == attempt <= MaxAttempts

\* attempt < maxAttempts
AttemptsLeft(attempt) == attempt < MaxAttempts

\* A poll callback that enters the try block whatever it found.
PollOutcomesUnguarded == {"written", "threwBefore", "threwAfter"}

\* Polls that stop running once the menu has left the document.
PollOutcomesWhileMenuOpen ==
    IF live = 0 THEN {}
    ELSE IF dateInput.present /\ timeInput.present
    THEN {"written", "threwBefore", "threwAfter"}
    ELSE {"notFound"}

\* What a poll callback can do: with both inputs in the document the try
\* block completes or throws, before or after the date value is assigned.
PollOutcomes ==
    IF dateInput.present /\ timeInput.present
    THEN {"written", "threwBefore", "threwAfter"}
    ELSE {"notFound"}

\* The run after its armed poll callback ran with the given outcome.
tryToSetDate(run, outcome) ==
    LET polled == [run EXCEPT !.polls = @ + 1]
    IN  IF outcome = "written"
        THEN [polled EXCEPT !.phase = "time", !.delay = TimeWriteDelay,
                            !.wroteDate = TRUE,
                            !.dateEl = dateInput.id, !.timeEl = timeInput.id]
        ELSE IF outcome \in {"threwBefore", "threwAfter"}
        THEN [polled EXCEPT !.phase = "error", !.delay = 0, !.caught = TRUE,
                            !.wroteDate = (outcome = "threwAfter")]
        ELSE IF AttemptsLeft(run.attempt)
        THEN [polled EXCEPT !.attempt = @ + 1,
                            !.delay = PollDelay(run.attempt + 1)]
        ELSE [polled EXCEPT !.phase = "exhausted", !.delay = 0]

mainVars == <<injectorVars, debounceVars, setupVars>>

\* The click listener of the "Tomorrow morning random" option.
ClickRandomOption ==
    /\ live # 0
    /\ \E i \in 1..Len(LiveMenu.children) :
        /\ LiveMenu.children[i].title = TitleRandom
        /\ IF ClickStartsRun("option")
           THEN fillDatePickerAndSchedule(LiveMenu.children[i].randomTime[1])
           ELSE UNCHANGED runs
    /\ UNCHANGED <<dateInput, timeInput, scheduleButton>>
    /\ UNCHANGED mainVars

\* A listener that checks the saved instant against the clock again.
CancelledClickProceedsIfFuture(item) ==
    ~isNaN(item.saved) /\ ~IsStale(DateParse(item.saved))

\* The listener's only test: new Date(savedTime) is a valid date (line 400).
CancelledClickProceeds(item) == ~isNaN(item.saved)

\* The click listener of the "Last cancelled time" option.
ClickCancelledOption ==
    /\ live # 0
    /\ \E i \in 1..Len(LiveMenu.children) :
        /\ LiveMenu.children[i].title = TitleCancelled
        /\ IF CancelledClickProceeds(LiveMenu.children[i])
           THEN fillDatePickerAndSchedule(DateParse(LiveMenu.children[i].saved))
           ELSE UNCHANGED runs
    /\ UNCHANGED <<dateInput, timeInput, scheduleButton>>
    /\ UNCHANGED mainVars

\* The timer of a poll fires.
PollRun(r) ==
    /\ runs[r].phase = "poll"
    /\ \E outcome \in PollOutcomes :
        /\ runs' = [runs EXCEPT ![r] = tryToSetDate(runs[r], outcome)]
        /\ dateInput' =
             IF outcome \in {"written", "threwAfter"}
             THEN [dateInput EXCEPT !.value = dateStrOf[runs[r].target]]
             ELSE dateInput
    /\ UNCHANGED <<timeInput, scheduleButton>>
    /\ UNCHANGED mainVars

Poll == \E r \in 1..Len(runs) : PollRun(r)

\* The timer armed after the date write fires: the time is written into the
\* element the poll found, in the document or not.
WriteTime ==
    /\ \E r \in 1..Len(runs) :
        /\ runs[r].phase = "time"
        /\ runs' = [runs EXCEPT ![r].phase = "confirm", ![r].delay = ConfirmDelay,
                                ![r].wroteTime = TRUE]
        /\ timeInput' =
             IF timeInput.id = runs[r].timeEl
             THEN [timeInput EXCEPT !.value = timeStrOf[runs[r].target]]
             ELSE timeInput
    /\ UNCHANGED <<dateInput, scheduleButton>>
    /\ UNCHANGED mainVars

\* The last timer fires: the "Schedule send" button is looked up and clicked.
Confirm ==
    /\ \E r \in 1..Len(runs) :
        /\ runs[r].phase = "confirm"
        /\ runs' = [runs EXCEPT ![r].phase = "done", ![r].delay = 0,
                                ![r].confirm = IF scheduleButton THEN "clicked"
                                               ELSE "notFound",
                                ![r].clicks = IF scheduleButton THEN @ + 1 ELSE @]
    /\ UNCHANGED <<dateInput, timeInput, scheduleButton>>
    /\ UNCHANGED mainVars

\* The host renders and removes the manual picker's elements.
RenderDateInput ==
    /\ ~dateInput.present
    /\ dateInput.id < MaxRenders
    /\ dateInput' = [id |-> dateInput.id + 1, present |-> TRUE, value |-> NoText]
    /\ UNCHANGED <<runs, timeInput, scheduleButton>>
    /\ UNCHANGED mainVars

RemoveDateInput ==
    /\ dateInput.present
    /\ dateInput' = [dateInput EXCEPT !.present = FALSE]
    /\ UNCHANGED <<runs, timeInput, scheduleButton>>
    /\ UNCHANGED mainVars

RenderTimeInput ==
    /\ ~timeInput.present
    /\ timeInput.id < MaxRenders
    /\ timeInput' = [id |-> timeInput.id + 1, present |-> TRUE, value |-> NoText]
    /\ UNCHANGED <<runs, dateInput, scheduleButton>>
    /\ UNCHANGED mainVars

RemoveTimeInput ==
    /\ timeInput.present
    /\ timeInput' = [timeInput EXCEPT !.present = FALSE]
    /\ UNCHANGED <<runs, dateInput, scheduleButton>>
    /\ UNCHANGED mainVars

ToggleScheduleButton ==
    /\ scheduleButton' = ~scheduleButton
    /\ UNCHANGED <<runs, dateInput, timeInput>>
    /\ UNCHANGED mainVars

\* The host re-renders the live menu without its "Pick date & time" item.
HostDropsPickItem ==
    /\ live # 0
    /\ HasClass(LiveMenu.children, "AM")
    /\ menus' = [menus EXCEPT ![live].children =
                    SelectSeq(LiveMenu.children, LAMBDA it : "AM" \notin it.cls)]
    /\ mutPending' = TRUE
    /\ lastAct' = Act("host", "", "")
    /\ UNCHANGED <<now, store, storeQueue, live, timer, captures, calcOut>>
    /\ UNCHANGED driverVars
    /\ UNCHANGED debounceVars
    /\ UNCHANGED setupVars

\* A menu in which both options were injected, the clock and the Store as
\* they were then, the watcher at rest.
InjectedMenu(k) ==
    LET withRandom ==
            injectTomorrowMorningRandomOption(FreshMenu(HostChildren), "injected", k)
    IN  injectMenuItemWithTime(withRandom, querySelector(withRandom.children, "Az"),
                               DateString(Clock(1)))

InitDriver ==
    /\ now = ClockStart
    /\ store = DateString(Clock(1))
    /\ storeQueue = <<>>
    /\ live = 1
    /\ menus \in {<<InjectedMenu(k)>> : k \in {0, RandomSteps - 1}}
    /\ timer = FALSE
    /\ mutPending = FALSE
    /\ captures = 1
    /\ lastAct = Act("pass", "flagSet", "already")
    /\ calcOut = NoResult
    /\ DriverIdle
    /\ DebounceAtRest
    /\ NoButtons

NextDriver ==
    \/ (Len(runs) < MaxRuns /\ ClickRandomOption)
    \/ (Len(runs) < MaxRuns /\ ClickCancelledOption)
    \/ Poll
    \/ WriteTime
    \/ Confirm
    \/ RenderDateInput
    \/ RemoveDateInput
    \/ RenderTimeInput
    \/ RemoveTimeInput
    \/ ToggleScheduleButton
    \/ HostDropsPickItem
    \/ MenuClose
    \/ RefreshClick

SpecDriver == InitDriver /\ [][NextDriver]_vars

\* A state of Spec from which the driver's specification starts.
DriverStartReached ==
    /\ now = ClockStart /\ store = DateString(Clock(1)) /\ storeQueue = <<>>
    /\ live = 1 /\ menus = <<InjectedMenu(0)>>
    /\ ~timer /\ ~mutPending /\ captures = 1
    /\ lastAct = Act("pass", "flagSet", "already")

\* The event loop fires every armed timer of the driver.
FairnessDriver ==
    /\ WF_vars(Poll)
    /\ WF_vars(WriteTime)
    /\ WF_vars(Confirm)

FairSpecDriver == SpecDriver /\ FairnessDriver

RunIds == 1..Len(runs)

\* No poll of the run has found both inputs so far.
NeverFoundBoth(r) == runs[r].phase \in {"poll", "exhausted"}

\* What such a run has done: at most MaxAttempts polls, one per attempt, a
\* timer armed exactly while it polls, nothing written, clicked or thrown.
QuietRun(r) ==
    /\ runs[r].polls <= MaxAttempts
    /\ ~runs[r].wroteDate /\ ~runs[r].wroteTime
    /\ runs[r].confirm = "none"
    /\ ~runs[r].caught
    /\ runs[r].phase = "poll" =>
          /\ runs[r].polls = runs[r].attempt - 1
          /\ runs[r].polls < MaxAttempts
          /\ runs[r].delay > 0
    /\ runs[r].phase = "exhausted" =>
          /\ runs[r].polls = MaxAttempts
          /\ runs[r].delay = 0

\* The run has a poll timer armed.
Polling(r) == r \in RunIds /\ runs[r].phase = "poll"

\* A run that gave up stays as it is: no further poll, write or click.
ExhaustedRunsFrozen ==
    \A r \in RunIds : runs[r].phase = "exhausted" => runs'[r] = runs[r]

\* C10: a Scheduling Driver run whose polls never find the date input and
\* the time input together makes exactly 15 polls and then stops; it writes
\* no field, clicks no confirm button, arms no further timer and throws
\* nothing.
C10_GivesUpAfterFifteenPolls ==
    /\ [](\A r \in RunIds : NeverFoundBoth(r) => QuietRun(r))
    /\ [][ExhaustedRunsFrozen]_vars
    /\ \A r \in 1..MaxRuns : Polling(r) ~> ~Polling(r)

\* A run gave up after 15 polls although the date input was in the document:
\* the time input was never rendered.
C10_Witness ==
    /\ runs # <<>>
    /\ runs[1].phase = "exhausted"
    /\ runs[1].polls = MaxAttempts
    /\ dateInput.present
    /\ timeInput.id = 0
    /\ dateInput.value = NoText /\ timeInput.value = NoText

\* A poll callback of run r ran in this step and armed the next poll.
PollRearmed(r) ==
    /\ runs[r].phase = "poll"
    /\ runs'[r].phase = "poll"
    /\ runs'[r].polls = runs[r].polls + 1

DateWritten(r) == ~runs[r].wroteDate /\ runs'[r].wroteDate
TimeWritten(r) == ~runs[r].wroteTime /\ runs'[r].wroteTime
ConfirmLookedUp(r) == runs[r].confirm = "none" /\ runs'[r].confirm # "none"

\* The order of one run's effects, as a state predicate.
WriteOrder(r) ==
    /\ runs[r].wroteDate => runs[r].phase \in {"time", "confirm", "done", "error"}
    /\ runs[r].wroteTime => runs[r].wroteDate /\ runs[r].phase \in {"confirm", "done"}
    /\ runs[r].confirm # "none" => runs[r].wroteTime /\ runs[r].phase = "done"
    /\ runs[r].clicks <= 1
    /\ runs[r].clicks = 1 <=> runs[r].confirm = "clicked"

\* The same order over steps: the date is written by a poll that finds both
\* inputs in the document, and the three effects of a run happen in three
\* different steps.
WriteOrderStep(r) ==
    /\ DateWritten(r) =>
          /\ dateInput.present /\ timeInput.present
          /\ runs[r].phase = "poll"
          /\ ~TimeWritten(r) /\ ~ConfirmLookedUp(r)
    /\ TimeWritten(r) =>
          /\ runs[r].wroteDate
          /\ ~ConfirmLookedUp(r)
    /\ ConfirmLookedUp(r) => runs[r].wroteTime
    /\ runs'[r].clicks # runs[r].clicks => ConfirmLookedUp(r) /\ scheduleButton

\* The input elements' values change only by these writes.
FieldsWrittenByRuns ==
    /\ (dateInput'.id = dateInput.id /\ dateInput'.value # dateInput.value)
          => \E r \in RunIds : DateWritten(r)
    /\ (timeInput'.id = timeInput.id /\ timeInput'.value # timeInput.value)
          => \E r \in RunIds : TimeWritten(r)

\* C12: in every Scheduling Driver run nothing is written before a poll that
\* finds the date input and the time input together; that poll writes the
\* date, a later step writes the time, a step after that one looks up and
\* clicks the confirm button, and the button is clicked at most once per run.
C12_StaggeredWrites ==
    /\ [](\A r \in RunIds : WriteOrder(r))
    /\ [][(\A r \in RunIds : WriteOrderStep(r)) /\ FieldsWrittenByRuns]_vars

\* A run wrote the date, then the time, then clicked the button it found.
C12_Witness ==
    /\ runs # <<>>
    /\ runs[1].phase = "done"
    /\ runs[1].clicks = 1
    /\ dateInput.value = dateStrOf[runs[1].target]
    /\ timeInput.value = timeStrOf[runs[1].target]

----------------------------------------------------------------------------
(* Cancellation Capture on its own: a burst of cancel clicks.               *)

MaxBurst == 3       \* cancel clicks in one burst

NextCapture ==
    \/ (captures < MaxBurst /\ CancelClickFound)
    \/ (captures < MaxBurst /\ CancelClickNotFound)
    \/ StoreWriteDone

SpecCapture == Init /\ [][NextCapture]_vars

\* The value the Store holds once the writes in flight have completed.
SettledStore(s, queue) ==
    IF SetOps(queue) = {} THEN s ELSE queue[NewestSet(queue)].value

----------------------------------------------------------------------------
(* Properties of the claim flag and of the order of injection.             *)

\* Store reads of the "Last cancelled time" injector in flight for menu m.
ReadsFor(queue, m) ==
    {i \in 1..Len(queue) : queue[i].op = "get" /\ queue[i].menu = m}

\* A read was issued in this step.
ReadIssued == Cardinality(ReadsFor(storeQueue', live)) >
              Cardinality(ReadsFor(storeQueue, live))

\* C14: the step that issues the Store read of the "Last cancelled time"
\* injector for a menu finds the menu's claim flag clear and leaves it set;
\* so at most one such read is in flight per menu instance, its menu's flag
\* is set while it is in flight, and an injection pass on a menu with a read
\* in flight issues none.
C14_OneReadPerMenu ==
    /\ [](\A m \in MenuIds :
            /\ Cardinality(ReadsFor(storeQueue, m)) <= 1
            /\ ReadsFor(storeQueue, m) # {} => menus[m].lastCancelledInjected)
    /\ [][/\ (live # 0 /\ ReadIssued) =>
                /\ ~menus[live].lastCancelledInjected
                /\ menus'[live].lastCancelledInjected
                /\ ReadsFor(storeQueue, live) = {}
          /\ (live # 0 /\ lastAct' = Act("pass", lastAct'[2], lastAct'[3])
                /\ ReadsFor(storeQueue, live) # {}) =>
                /\ lastAct'[3] = "already"
                /\ ReadsFor(storeQueue', live) = ReadsFor(storeQueue, live)]_vars

\* A second pass has just run on the live menu while its read was in flight.
C14_Witness ==
    /\ live # 0
    /\ lastAct = Act("pass", "flagSet", "already")
    /\ Cardinality(ReadsFor(storeQueue, live)) = 1
    /\ CancelledCount(live) = 0

\* An injector step ended its work on menu m holding the claim: it set the
\* flag without issuing a read, or it completed the menu's read and left the
\* flag set.
ClaimKeptAtEnd(m) ==
    /\ lastAct'[1] \in {"pass", "reply"}
    /\ ReadsFor(storeQueue', m) = {}
    /\ menus'[m].lastCancelledInjected
    /\ ~menus[m].lastCancelledInjected \/ ReadsFor(storeQueue, m) # {}

\* C15: every path of the "Last cancelled time" injector that ends without
\* the option in the menu leaves the menu's claim flag clear; so, host
\* removals aside, a menu with no read in flight has its flag set only if it
\* holds the option.
C15_ClaimMeansOption ==
    [][\A m \in MenuIds :
          ClaimKeptAtEnd(m) => CountTitle(menus'[m].children, TitleCancelled) >= 1]_vars

\* The randomized option first, the "Last cancelled time" option next to it.
RandomThenCancelled(children) ==
    /\ Len(children) >= 2
    /\ children[1].title = TitleRandom
    /\ children[2].title = TitleCancelled

\* C16: an injection pass inserts the randomized option before it issues the
\* Store read for the "Last cancelled time" option, so the read's callback
\* closes over a menu that already holds the randomized option; and a menu
\* whose children the host has not re-rendered since (Wiped is the trace such
\* a re-render leaves) holds the "Last cancelled time" option only as the
\* next sibling of the randomized option, which is its first child.
C16_RandomFirst ==
    /\ [](\A m \in MenuIds :
            (CancelledCount(m) >= 1 /\ ~Wiped(m)) =>
                RandomThenCancelled(menus[m].children))
    /\ [][lastAct' = Act("pass", "injected", "readIssued") =>
            /\ menus'[live].children[1].title = TitleRandom
            /\ storeQueue'[Len(storeQueue')].op = "get"
            /\ storeQueue'[Len(storeQueue')].item = menus'[live].children[1]]_vars

\* The read issued by the pass that inserted the randomized option has just
\* completed and inserted the "Last cancelled time" option.
C16_Witness ==
    /\ live # 0
    /\ lastAct = Act("reply", "injected", "")
    /\ RandomThenCancelled(LiveMenu.children)
    /\ Len(LiveMenu.children) = 4

----------------------------------------------------------------------------
(* The debounce timer of injectOptions in detail (lines 560-574). Spec      *)
(* keeps of it only whether a timer is armed (the variable timer).          *)

MaxTriggers == 4    \* calls of injectOptions, the one of init() included
MaxTime == 500      \* time stops advancing here

\* Time advances by half the debounce delay or by all of it.
Gaps == {DebounceDelay \div 2, DebounceDelay}

\* A clearTimeout that cancels nothing.
clearTimeoutNoop(timers, id) == timers

\* clearTimeout(id): a no-op for an id that is not armed.
clearTimeout(timers, id) == {t \in timers : t.id # id}

\* setTimeout(callback, delay), the id chosen by the caller of this operator.
setTimeout(timers, id, delay) == timers \cup {[id |-> id, due |-> dbNow + delay]}

\* A call of injectOptions, by the observer callback.
DebounceTrigger ==
    /\ Len(triggerTimes) < MaxTriggers
    /\ LET id == Len(triggerTimes) + 1
           kept == IF injectionTimeout # 0
                   THEN clearTimeout(pendingTimers, injectionTimeout)
                   ELSE pendingTimers
       IN  /\ pendingTimers' = setTimeout(kept, id, DebounceDelay)
           /\ injectionTimeout' = id
    /\ triggerTimes' = Append(triggerTimes, dbNow)
    /\ UNCHANGED <<dbNow, passTimes>>
    /\ UNCHANGED injectorVars
    /\ UNCHANGED driverVars
    /\ UNCHANGED setupVars

\* An armed timer is due: its callback, the injection pass, runs.
DebounceFire ==
    /\ \E t \in pendingTimers :
        /\ t.due <= dbNow
        /\ pendingTimers' = pendingTimers \ {t}
    /\ passTimes' = Append(passTimes, dbNow)
    /\ UNCHANGED <<dbNow, injectionTimeout, triggerTimes>>
    /\ UNCHANGED injectorVars
    /\ UNCHANGED driverVars
    /\ UNCHANGED setupVars

\* Time passes, never beyond the due time of an armed timer.
TimePasses ==
    /\ dbNow < MaxTime
    /\ \E d \in Gaps :
        /\ \A t \in pendingTimers : dbNow + d <= t.due
        /\ dbNow' = dbNow + d
    /\ UNCHANGED <<injectionTimeout, pendingTimers, triggerTimes, passTimes>>
    /\ UNCHANGED injectorVars
    /\ UNCHANGED driverVars
    /\ UNCHANGED setupVars

NextDebounce ==
    \/ DebounceTrigger
    \/ DebounceFire
    \/ TimePasses

SpecDebounce == Init /\ [][NextDebounce]_vars

TriggerIds == 1..Len(triggerTimes)
PassSet == {passTimes[i] : i \in 1..Len(passTimes)}

\* Trigger i was followed by no other trigger less than 100 (MustRun: at
\* most 100) later, and 100 have passed since.
MayRun(i) ==
    /\ i = Len(triggerTimes) \/ triggerTimes[i + 1] >= triggerTimes[i] + 100
    /\ triggerTimes[i] + 100 <= dbNow
MustRun(i) ==
    /\ i = Len(triggerTimes) \/ triggerTimes[i + 1] > triggerTimes[i] + 100
    /\ triggerTimes[i] + 100 < dbNow

\* Every trigger so far came less than 100 after the one before it.
OneBurst == \A i \in TriggerIds : i > 1 => triggerTimes[i] < triggerTimes[i - 1] + 100

\* C17: at most one debounce timer is armed at any moment; an injection
\* pass runs exactly 100 after a trigger that no other trigger followed
\* within 100, and at no other time; so triggers that each come within 100
\* of the one before give one pass, 100 after the last of them.
C17_OnePassPerBurst ==
    /\ Cardinality(pendingTimers) <= 1
    /\ Cardinality(PassSet) = Len(passTimes)
    /\ PassSet \subseteq {triggerTimes[i] + 100 : i \in {j \in TriggerIds : MayRun(j)}}
    /\ {triggerTimes[i] + 100 : i \in {j \in TriggerIds : MustRun(j)}} \subseteq PassSet
    /\ OneBurst =>
          /\ Len(passTimes) <= 1
          /\ passTimes # <<>> =>
                passTimes[1] = triggerTimes[Len(triggerTimes)] + 100
          /\ dbNow > triggerTimes[Len(triggerTimes)] + 100 => Len(passTimes) = 1

\* Three triggers 50 apart were followed by one pass, 100 after the third.
C17_Witness ==
    /\ triggerTimes = <<0, 50, 100>>
    /\ passTimes = <<200>>
    /\ dbNow = 300

----------------------------------------------------------------------------
(* Properties of the Menu Watcher.                                         *)

\* The live menu lacks one of the two synthetic options.
LacksAnOption == CancelledCount(live) = 0 \/ RandomCount(live) = 0

\* C18: after the start-up call, only the observer callback arms the
\* debounce timer, and only when it finds a live menu that lacks one of the
\* two options; an observer callback that finds no menu, or a menu with both
\* options, arms nothing, and the periodic check arms nothing.
C18_ScheduledByMutationOnly ==
    [][/\ (timer' /\ ~timer) => lastAct' = Act("mutation", "injectOptions", "")
       /\ lastAct' = Act("mutation", "injectOptions", "") =>
             live # 0 /\ LacksAnOption /\ timer'
       /\ (lastAct'[1] = "mutation" /\ (live = 0 \/ ~LacksAnOption)) =>
             lastAct' = Act("mutation", "nothing", "") /\ timer' = timer
       /\ lastAct'[1] = "periodic" => timer' = timer]_vars

\* The observer callback has just found a live menu with both options and,
\* with no timer armed, armed none.
C18_Witness ==
    /\ lastAct = Act("mutation", "nothing", "")
    /\ live # 0
    /\ ~LacksAnOption
    /\ ~timer

\* No debounce timer armed, no observer callback due, no Store read in flight.
Quiescent ==
    /\ ~timer
    /\ ~mutPending
    /\ \A i \in 1..Len(storeQueue) : storeQueue[i].op # "get"

\* A step of the host: a menu rendered, re-rendered or removed.
HostStep == lastAct' = Act("host", "", "")

\* C19: if from some point on the host makes no more changes, then from some
\* point on no debounce timer is armed, no observer callback is due and no
\* Store read is in flight, so no further injection pass runs; the
\* injectors' own insertions do not keep the watcher going, whether the
\* Store holds a future instant or nothing.
C19_Quiesces == <>[][~HostStep]_vars => <>[]Quiescent

\* The watcher is at rest on a live menu that holds both options, the Store
\* holding a future instant.
C19_Witness ==
    /\ Quiescent
    /\ live # 0
    /\ store.tag = "date" /\ store.t > now
    /\ CancelledCount(live) = 1 /\ RandomCount(live) = 1
    /\ lastAct = Act("mutation", "nothing", "")

\* The ways a run ends.
Ended(r) == runs[r].phase \in {"done", "error", "exhausted", "noPick"}

\* What each ending tells about the run; an ended run has no timer armed.
EndedAsClaimed(r) ==
    /\ runs[r].delay = 0
    /\ runs[r].phase = "done" =>
          runs[r].wroteTime /\ runs[r].confirm \in {"clicked", "notFound"}
    /\ runs[r].phase = "error" => runs[r].caught /\ ~runs[r].wroteTime
    /\ runs[r].phase = "exhausted" => runs[r].polls = 15 /\ ~runs[r].wroteDate
    /\ runs[r].phase = "noPick" =>
          /\ ~runs[r].pickClick
          /\ runs[r].polls = 0
          /\ ~runs[r].wroteDate /\ ~runs[r].wroteTime
          /\ runs[r].confirm = "none"

\* The picker-opening item is in the document.
PickItemPresent ==
    /\ live # 0
    /\ \E i \in 1..Len(menus[live].children) : "AM" \in menus[live].children[i].cls

\* A run that starts without the picker-opening item ends in the same step
\* and changes no field; one that starts with it arms its first poll.
StartedAsClaimed ==
    Len(runs') > Len(runs) =>
        /\ runs'[Len(runs')].phase = IF PickItemPresent THEN "poll" ELSE "noPick"
        /\ dateInput' = dateInput /\ timeInput' = timeInput

\* C20: with every armed timer eventually firing, each Scheduling Driver run
\* ends: after the confirm button was clicked or not found, after a poll
\* that threw while writing, after the 15th poll that did not find both
\* inputs, or at once when the picker-opening item is absent, and then with
\* no timer armed and nothing written; an ended run does nothing more.
C20_RunsTerminate ==
    /\ \A r \in 1..MaxRuns : (r \in RunIds) ~> (r \in RunIds /\ Ended(r))
    /\ [](\A r \in RunIds : Ended(r) => EndedAsClaimed(r))
    /\ [][StartedAsClaimed /\ \A r \in RunIds : Ended(r) => runs'[r] = runs[r]]_vars

\* A click found no picker-opening item although both inputs were in the
\* document: the run ended without a poll.
C20_Witness ==
    /\ runs # <<>>
    /\ runs[1].phase = "noPick"
    /\ dateInput.present /\ timeInput.present
    /\ dateInput.value = NoText /\ timeInput.value = NoText

----------------------------------------------------------------------------
(* Two driver runs side by side while the host closes or replaces the menu. *)

MaxPair == 2        \* option clicks, each starting a run

NextDriverPair ==
    \/ (Len(runs) < MaxPair /\ ClickRandomOption)
    \/ (Len(runs) < MaxPair /\ ClickCancelledOption)
    \/ Poll
    \/ WriteTime
    \/ Confirm
    \/ RenderDateInput
    \/ RenderTimeInput
    \/ MenuClose
    \/ MenuAppear

SpecDriverPair == InitDriver /\ [][NextDriverPair]_vars

\* A run that polls is changed only by a poll, which finds both inputs
\* or counts one more attempt, the 15th being the last.
PollsOn(r) ==
    runs[r].phase = "poll" /\ runs'[r] # runs[r] =>
        /\ runs'[r].polls = runs[r].polls + 1
        /\ \/ dateInput.present /\ timeInput.present
              /\ runs'[r].phase \in {"time", "error"}
           \/ ~(dateInput.present /\ timeInput.present)
              /\ runs'[r].phase = IF runs[r].polls + 1 = 15 THEN "exhausted" ELSE "poll"

\* C21: a Scheduling Driver run goes on when the menu is closed or replaced:
\* those steps change no run, the poll of a polling run can fire with or
\* without a menu, a polling run keeps polling until a poll finds both
\* inputs or 15 polls were made, and a step of one run changes no other run.
C21_RunsSurviveMenu ==
    /\ [](\A r \in RunIds : Polling(r) => ENABLED PollRun(r))
    /\ [][/\ live' # live => runs' = runs
          /\ \A r \in RunIds : PollsOn(r)
          /\ \A r1, r2 \in RunIds :
                (r1 # r2 /\ runs'[r1] # runs[r1]) => runs'[r2] = runs[r2]]_vars

\* Two runs were started from the same menu, the menu was then closed, and
\* with no menu in the document one run found the inputs and finished while
\* the other had already given up after 15 polls.
C21_Witness ==
    /\ Len(runs) = 2
    /\ live = 0
    /\ runs[1].phase = "exhausted"
    /\ runs[2].phase = "done"
    /\ lastAct = Act("host", "", "")

----------------------------------------------------------------------------
(* Properties of the options' click handlers.                              *)

\* The randomized option of the live menu, where it has one.
RandomIndex == CHOOSE i \in 1..Len(menus[live].children) :
                   menus[live].children[i].title = TitleRandom

\* This step is a click on the refresh button: it stored a new target, or it
\* is the first refresh after another kind of step.
RefreshStep ==
    \/ lastAct' = Act("refresh", "", "") /\ lastAct # lastAct'
    \/ /\ live # 0 /\ live' = live
       /\ RandomCount(live) = 1
       /\ Len(menus'[live].children) = Len(menus[live].children)
       /\ menus'[live].children[RandomIndex].randomTime
             # menus[live].children[RandomIndex].randomTime

\* C22: a click on the refresh button starts no Scheduling Driver run and
\* writes no field.
C22_RefreshStartsNoRun ==
    [][RefreshStep =>
          /\ runs' = runs
          /\ dateInput' = dateInput /\ timeInput' = timeInput]_vars

\* The refresh button has just been clicked, the stored target is the other
\* draw, and no run exists.
C22_Witness ==
    /\ lastAct = Act("refresh", "", "")
    /\ live # 0
    /\ RandomCount(live) = 1
    /\ menus[live].children[RandomIndex].randomTime = <<tomorrowMorningAt[now][0]>>
    /\ runs = <<>>

\* Every randomized option shows the display format of its stored target.
LabelMatchesTarget ==
    \A m \in MenuIds : \A i \in 1..Len(menus[m].children) :
        LET item == menus[m].children[i]
        IN  item.title = TitleRandom =>
                /\ item.randomTime # NoTime
                /\ item.display = formatTimeForDisplay(item.randomTime[1])

\* The instants the live menu's options hold in this state.
StoredTargets ==
    {menus[live].children[i].randomTime[1] :
        i \in {j \in 1..Len(menus[live].children) :
                  menus[live].children[j].title = TitleRandom}}
SavedTargets ==
    {menus[live].children[i].saved.t :
        i \in {j \in 1..Len(menus[live].children) :
                  menus[live].children[j].title = TitleCancelled}}

\* C23: after injection and after every refresh the randomized option shows
\* the display format of the target it stores, and a click that starts a
\* Scheduling Driver run hands it the target stored at the time of the click,
\* which is the one the most recent refresh (or the injection) stored.
C23_ClickUsesStoredTarget ==
    /\ []LabelMatchesTarget
    /\ [][Len(runs') > Len(runs) =>
            /\ live # 0
            /\ runs'[Len(runs')].target \in StoredTargets \cup SavedTargets]_vars

\* After a refresh the option stores the earliest draw, and the run started
\* by the click that followed holds that target.
C23_Witness ==
    /\ lastAct = Act("refresh", "", "")
    /\ live # 0
    /\ StoredTargets = {tomorrowMorningAt[now][0]}
    /\ runs # <<>>
    /\ runs[1].target = tomorrowMorningAt[now][0]
    /\ runs[1].polls = 0

----------------------------------------------------------------------------
(* The "Last cancelled time" option clicked while the clock advances and    *)
(* new cancellations overwrite the Store.                                   *)

NextCancelledClick ==
    \/ (Len(runs) < MaxRuns /\ ClickCancelledOption)
    \/ (captures < MaxBurst /\ CancelClickFound)
    \/ StoreWriteDone
    \/ Tick
    \/ Poll
    \/ WriteTime
    \/ Confirm
    \/ RenderDateInput
    \/ RenderTimeInput

SpecCancelledClick == InitDriver /\ [][NextCancelledClick]_vars

\* A click on the option that starts a run.
CancelledClickStartsRun == ClickCancelledOption /\ Len(runs') = Len(runs) + 1

\* C24: the "Last cancelled time" option keeps the text the Store read
\* returned when it was inserted: cancellations that overwrite the Store and
\* the clock reaching the saved instant change no option; a click on the
\* option starts a run in every state, stale or not, and hands the driver
\* the instant the option holds.
C24_ClickUsesInjectedValue ==
    /\ [](live # 0 /\ SavedTargets # {} => ENABLED CancelledClickStartsRun)
    /\ [][/\ menus' = menus
          /\ Len(runs') > Len(runs) =>
                runs'[Len(runs')].target \in SavedTargets]_vars

\* The option was clicked when the clock had reached its instant and the
\* Store held another text; the run holds the option's instant.
C24_Witness ==
    /\ runs # <<>>
    /\ runs[1].target = Clock(1)
    /\ runs[1].clickedAt >= runs[1].target
    /\ store = EmptyString
    /\ SavedTargets = {Clock(1)}
    /\ runs[1].wroteDate /\ dateInput.value = dateStrOf[Clock(1)]


----------------------------------------------------------------------------
(* The listener set-up on its own: its four triggers, the host's buttons.  *)

MaxButtons == 2     \* "Cancel send" button instances the host renders
MaxSetups == 3      \* set-up calls that find one instance

SetupsLeft == IF liveButton = 0 THEN TRUE ELSE buttons[liveButton].setups < MaxSetups

NextSetup ==
    \/ (SetupsLeft /\ SetupTimerFires)
    \/ (SetupsLeft /\ PeriodicCheck)
    \/ (Len(buttons) < MaxButtons /\ ButtonAppear)
    \/ ButtonRemove
    \/ ButtonShown
    \/ (captures < MaxCaptures /\ Len(storeQueue) < MaxStoreOps /\ CancelButtonClick)
    \/ StoreWriteDone

SpecSetup == Init /\ [][NextSetup]_vars

ButtonIds == 1..Len(buttons)

\* C25: whatever sequence of start-up, mutation, history and periodic set-up
\* calls has run, every cancel-button instance carries at most one listener of
\* the extension, and a click on the button queues at most one Store write.
C25_OneListenerPerButton ==
    /\ [](\A b \in ButtonIds : buttons[b].listeners <= 1)
    /\ [][captures' # captures =>
              Len(storeQueue') <= Len(storeQueue) + 1]_vars

\* An instance that three set-up calls found, the last of them the periodic
\* one, was taken off the page and shown again, carries one listener, and the
\* one write of a click on it has reached the Store.
C25_Witness ==
    /\ Len(buttons) = 1
    /\ buttons[1].setups = MaxSetups
    /\ buttons[1].listeners = 1
    /\ liveButton = 1
    /\ captures = 1
    /\ store # EmptyString
    /\ storeQueue = <<>>
    /\ lastAct = Act("periodic", "", "")


----------------------------------------------------------------------------
(* The calculator's result against the clock it read.                      *)

\* C26: the instant calculateTomorrowMorningRandom() returns is strictly later
\* than the time at which it was called, at every hour of the day and for
\* every random minute.
C26_ResultInFuture ==
    calcOut # NoResult => calcOut[1] > now

\* A call in the last second before 08:00 that drew minute 0: the result is
\* 08:00:00 of the same day, one second after the call.
C26_Witness ==
    /\ calcOut # NoResult
    /\ getHours(now) = MorningHour - 1
    /\ getMinutes(calcOut[1]) = 0
    /\ CalendarDate(calcOut[1]) = CalendarDate(now)
    /\ calcOut[1] = now + 1

====
